---- MODULE Spec2Model ----
(***************************************************************************)
(* A model of the Logger facade of src/index.js.                           *)
(*                                                                         *)
(* src/index.js holds three variants of class Logger (lines 21-246,        *)
(* 260-462 and 473-668).  The variable `variant` says which of them is     *)
(* loaded; every operator that differs between the variants exists once    *)
(* per variant (suffix V1, V2, V3), the others exist once.                 *)
(*                                                                         *)
(* Scalars (service, environment, ids, levels) are TLA+ strings; the       *)
(* texts the code takes apart or glues together (process names, file       *)
(* names, method names, messages) are sequences of one-character strings.  *)
(***************************************************************************)
EXTENDS Integers, Sequences, FiniteSets, TLC

VARIABLES
  variant,          \* 1, 2 or 3: the class Logger of src/index.js in use
  constructed,      \* "no" | "yes" | "threw": outcome of new Logger(...)
  config,           \* the arguments new Logger(...) was called with
  logger,           \* this.logger: the backend logger createLogger returned
  created,          \* the transports built so far by `new transports.X(...)`
  processName,      \* this.processName
  classProcessName, \* this.classProcessName
  lastLabel,        \* history: the label last given by setProcess/setFilename
  lastMethod,       \* history: the argument of the last setMethodProcess
  ns,               \* httpContext.ns: the continuation-local namespace
  out,              \* the records the last log call handed to this.logger
  lastCall,         \* history: the arguments of the last log call
  threw,            \* whether the last log call threw to its caller
  running,          \* the logical flow whose callback is on the stack
  pc,               \* per flow: "new" | "run" | "wait" | "done"
  mode,             \* per flow: "middleware" | "lazy"
  resCtx,           \* per flow: context held by its pending async resource
  entered,          \* per flow: context entered for its current callback
  didSetLog,        \* per flow: it has called setLogId itself
  didSetUser,       \* per flow: it has called setUserId itself
  afterDone,        \* per flow: it started after some flow had completed
  everLazy,         \* history: some flow started outside the middleware
  started           \* number of flows started so far

vars == <<variant, constructed, config, logger, created, processName,
          classProcessName, lastLabel, lastMethod, ns, out, lastCall, threw,
          running, pc, mode, resCtx, entered, didSetLog, didSetUser,
          afterDone, everLazy, started>>

loggerVars == <<variant, constructed, config, logger, created>>
procVars   == <<processName, classProcessName, lastLabel, lastMethod>>
callVars   == <<out, lastCall, threw>>
flowVars   == <<running, pc, mode, resCtx, entered, didSetLog, didSetUser,
                afterDone, everLazy, started>>

(***************************************************************************)
(* Bounds                                                                  *)
(***************************************************************************)
MaxStarts == 3      \* flows started in one behaviour of SpecFlow

(***************************************************************************)
(* JavaScript values                                                       *)
(***************************************************************************)
Undefined == "<undefined>"        \* undefined, in a scalar slot
UndefinedText == <<"<undefined>">> \* undefined, in a text slot

Falsy(x) == x = Undefined \/ x = ""
FalsyText(t) == t = UndefinedText \/ t = <<>>

\* `${t}` for a text slot
ToText(t) == IF t = UndefinedText THEN <<"u","n","d","e","f","i","n","e","d">> ELSE t

Variants == {1, 2, 3}

(***************************************************************************)
(* Construction: validateMetadata, buildMetadataConfig, initializeLogger   *)
(***************************************************************************)
\* A validateMetadata that forgets the environment.
validateMetadataServiceOnly(metadata) == Falsy(metadata.service)

\* TRUE iff validateMetadata throws
validateMetadata(metadata) ==
  Falsy(metadata.service) \/ Falsy(metadata.environment)

buildMetadataConfigV1(metadata) ==
  [service |-> metadata.service, environment |-> metadata.environment]

buildMetadataConfigV3(metadata) ==
  [service |-> metadata.service \o "-" \o metadata.environment,
   environment |-> metadata.environment]

buildMetadataConfig(v, metadata) ==
  IF v = 3 THEN buildMetadataConfigV3(metadata)
           ELSE buildMetadataConfigV1(metadata)

\* Each _enableX returns the transports it built: <<>> stands for the
\* undefined/null that _.compact drops.
_enableConsoleTransportV1(metadata) ==
  IF metadata.environment = "test" THEN <<>> ELSE <<"console">>

_enableConsoleTransportV3(options) == <<"console">>

_enableFileTransport(options) ==
  IF ~Falsy(options.filename) THEN <<"file">> ELSE <<>>

_enableDatadogTransportV1(options, metadata) ==
  IF metadata.environment = "test" THEN <<>>
  ELSE IF ~Falsy(options.datadog_api_key) THEN <<"remote">> ELSE <<>>

_enableDatadogTransportV3(options, metadata) ==
  IF ~Falsy(options.datadog_api_key) THEN <<"remote">> ELSE <<>>

_enableDevNullTransport(metadata) ==
  IF metadata.environment = "test" THEN <<"null">> ELSE <<>>

initializeLoggerV1(options, metadata, customTransports) ==
  [exists      |-> TRUE,
   level       |-> IF options.level = Undefined THEN "info" ELSE options.level,
   format      |-> IF metadata.environment = "dev" THEN "dev" ELSE "json",
   defaultMeta |-> metadata,
   transports  |-> _enableConsoleTransportV1(metadata)
                   \o _enableDevNullTransport(metadata)
                   \o customTransports]

initializeLoggerV2(options, metadata, customTransports) ==
  [exists      |-> TRUE,
   level       |-> "info",
   format      |-> IF metadata.environment = "dev" THEN "simple" ELSE "json",
   defaultMeta |-> metadata,
   transports  |-> _enableConsoleTransportV1(metadata) \o customTransports]

initializeLoggerV3(options, metadata, customTransports) ==
  [exists      |-> TRUE,
   level       |-> "info",
   format      |-> "json",
   defaultMeta |-> metadata,
   transports  |-> _enableConsoleTransportV3(options)
                   \o _enableDatadogTransportV3(options, metadata)
                   \o _enableFileTransport(options)
                   \o customTransports]

initializeLogger(v, options, metadata, customTransports) ==
  CASE v = 1 -> initializeLoggerV1(options, metadata, customTransports)
    [] v = 2 -> initializeLoggerV2(options, metadata, customTransports)
    [] v = 3 -> initializeLoggerV3(options, metadata, customTransports)

NoLogger ==
  [exists      |-> FALSE,
   level       |-> Undefined,
   format      |-> Undefined,
   defaultMeta |-> [service |-> Undefined, environment |-> Undefined],
   transports  |-> <<>>]

NoConfig ==
  [metadata |-> [service |-> Undefined, environment |-> Undefined],
   options  |-> [filename |-> Undefined, datadog_api_key |-> Undefined,
                 level |-> Undefined],
   customTransports |-> <<>>]

\* The transports a custom transport list adds are caller-built, so only the
\* ones initializeLogger builds itself count as created by the constructor.
OwnTransports(l, customTransports) ==
  SubSeq(l.transports, 1, Len(l.transports) - Len(customTransports))

\* new Logger(metadata, options, customTransports)
constructor(metadata, options, customTransports) ==
  /\ constructed = "no"
  /\ config' = [metadata |-> metadata, options |-> options,
                customTransports |-> customTransports]
  /\ IF validateMetadata(metadata)
     THEN /\ constructed' = "threw"
          /\ logger' = NoLogger
          /\ created' = <<>>
     ELSE LET l == initializeLogger(variant, options,
                                    buildMetadataConfig(variant, metadata),
                                    customTransports)
          IN /\ constructed' = "yes"
             /\ logger' = l
             /\ created' = OwnTransports(l, customTransports)
  /\ UNCHANGED variant

Sinks(l) == {l.transports[i] : i \in 1..Len(l.transports)}

(***************************************************************************)
(* Process names: setProcess, setFilename, setMethodProcess                *)
(***************************************************************************)
Lower == <<"a","b","c","d","e","f","g","h","i","j","k","l","m",
           "n","o","p","q","r","s","t","u","v","w","x","y","z">>
Upper == <<"A","B","C","D","E","F","G","H","I","J","K","L","M",
           "N","O","P","Q","R","S","T","U","V","W","X","Y","Z">>

\* String.prototype.toUpperCase on one character
toUpperCase(c) ==
  IF \E i \in 1..Len(Lower) : Lower[i] = c
  THEN Upper[CHOOSE i \in 1..Len(Lower) : Lower[i] = c]
  ELSE c

\* methodName.charAt(0).toUpperCase() + methodName.slice(1)
methodNameCapitalized(methodName) ==
  IF methodName = <<>> THEN <<>>
  ELSE <<toUpperCase(Head(methodName))>> \o Tail(methodName)

RECURSIVE StripTrailingSlashes(_)
StripTrailingSlashes(t) ==
  IF Len(t) > 1 /\ t[Len(t)] = "/"
  THEN StripTrailingSlashes(SubSeq(t, 1, Len(t) - 1))
  ELSE t

\* path.basename(filename): what follows the last "/" (POSIX)
basename(filename) ==
  LET t == StripTrailingSlashes(filename)
      slashes == {i \in 1..Len(t) : t[i] = "/"}
      last == IF slashes = {} THEN 0
              ELSE CHOOSE i \in slashes : \A j \in slashes : j <= i
  IN IF t = <<"/">> THEN <<>> ELSE SubSeq(t, last + 1, Len(t))

\* the text setMethodProcess puts between the class label and the method
MethodSeparatorV1 == <<"]"," ","[","m","e","t","h","o","d","s",":">>
MethodSeparatorV2 == <<")"," ","(","m","e","t","h","o","d","s",":">>
MethodSeparator(v) == IF v = 1 THEN MethodSeparatorV1 ELSE MethodSeparatorV2

setProcess(name) ==
  /\ processName' = name
  /\ UNCHANGED classProcessName

setFilename(filename) ==
  /\ processName' = basename(filename)
  /\ UNCHANGED classProcessName

\* the class label setMethodProcess works from: cached on the first call
ClassLabel ==
  IF FalsyText(classProcessName) THEN processName ELSE classProcessName

setMethodProcess(methodName) ==
  /\ classProcessName' = ClassLabel
  /\ processName' = ToText(ClassLabel) \o MethodSeparator(variant)
                      \o methodNameCapitalized(methodName)

(***************************************************************************)
(* The continuation-local namespace httpContext.ns.                        *)
(*                                                                         *)
(* express-http-context keeps one cls-hooked namespace: `active` is the    *)
(* context of the code now running (0: null), `set` the stack enter()      *)
(* pushes the previous `active` on and exit() pops it from, `contexts` the *)
(* context objects by identity.  A context is created with the then active *)
(* context as its prototype, so a read falls back to that one.             *)
(***************************************************************************)
NoNamespace == [active |-> 0, set |-> <<>>, contexts |-> <<>>]

\* ns.createContext(): Object.create(this.active ? this.active : Object.prototype)
nsCreateContext(n) ==
  [n EXCEPT !.contexts = Append(n.contexts,
      [parent |-> n.active, logId |-> Undefined, userId |-> Undefined])]

\* the context nsCreateContext has just made
NewContext(n) == Len(n.contexts) + 1

\* ns.enter(context)
nsEnter(n, context) ==
  [n EXCEPT !.set = Append(n.set, n.active), !.active = context]

\* ns.exit(context): pops back to the context that was active at enter
nsExit(n, context) ==
  IF n.active = context
  THEN [n EXCEPT !.active = n.set[Len(n.set)],
                 !.set = SubSeq(n.set, 1, Len(n.set) - 1)]
  ELSE LET idx == {i \in 1..Len(n.set) : n.set[i] = context}
           last == CHOOSE i \in idx : \A j \in idx : j <= i
       IN IF idx = {} THEN n
          ELSE [n EXCEPT !.set = SubSeq(n.set, 1, last - 1)
                                   \o SubSeq(n.set, last + 1, Len(n.set))]

\* the value a read of context c finds for key, along the prototype chain
RECURSIVE Lookup(_, _, _)
Lookup(n, c, key) ==
  IF c = 0 THEN Undefined
  ELSE IF n.contexts[c][key] # Undefined THEN n.contexts[c][key]
  ELSE Lookup(n, n.contexts[c].parent, key)

\* httpContext.set(key, value): if (ns && ns.active) ns.set(key, value)
httpContextSet(n, key, value) ==
  IF n.active # 0 THEN [n EXCEPT !.contexts[n.active][key] = value] ELSE n

\* httpContext.get(key): if (ns && ns.active) return ns.get(key)
httpContextGet(n, key) ==
  IF n.active # 0 THEN Lookup(n, n.active, key) ELSE Undefined

\* Logger.createContext(): assigns ns.active directly, without ns.enter
createContext(n) ==
  IF n.active = 0
  THEN [nsCreateContext(n) EXCEPT !.active = NewContext(n)]
  ELSE n

setLogId(n, logId) == httpContextSet(createContext(n), "logId", logId)
getLogId(n) == httpContextGet(n, "logId")
setUserId(n, userId) == httpContextSet(createContext(n), "userId", userId)
getUserId(n) == httpContextGet(n, "userId")

(***************************************************************************)
(* Objects passed to and built by a log call                               *)
(***************************************************************************)
\* id: the object's identity (0: an object the logger built itself);
\* service, environment: own enumerable keys; message, name, stack: those of
\* an Error, which are own but not enumerable.
NoObject ==
  [id |-> 0, kind |-> "none", service |-> Undefined, environment |-> Undefined,
   message |-> UndefinedText, name |-> Undefined, stack |-> Undefined]

EmptyExtra == [NoObject EXCEPT !.id = 1, !.kind = "plain"]

ClashExtra == [NoObject EXCEPT !.id = 2, !.kind = "plain",
                               !.service = "other", !.environment = "elsewhere"]

BoomError == [NoObject EXCEPT !.id = 3, !.kind = "Error",
                              !.message = <<"b","o","o","m">>,
                              !.name = "Error",
                              !.stack = "Error: boom\n    at catchError"]

\* serializeError(value): a new plain object with the value's enumerable keys
\* and, for an Error, its name, message and stack
serializeError(value) == [value EXCEPT !.id = 0, !.kind = "plain"]

\* Object.assign({}, opts): a new plain object with the own enumerable keys
ObjectAssign(opts) ==
  IF opts.kind = "Error"
  THEN [NoObject EXCEPT !.kind = "plain", !.service = opts.service,
                        !.environment = opts.environment]
  ELSE [opts EXCEPT !.id = 0, !.kind = "plain"]

LOCAL_DEV_ENVIRONMENT == "DEV"

parseMetadata(opts, level) ==
  IF level # "error" \/ logger.defaultMeta.environment = LOCAL_DEV_ENVIRONMENT
  THEN opts
  ELSE serializeError(opts)

\* `${message}`: a string as it is, an Error as "Error: " + its message
MessageText(message) ==
  IF message.kind = "Error"
  THEN <<"E","r","r","o","r",":"," ">> \o message.text
  ELSE message.text

NoProcessNameMessage ==
  <<"N","o"," ","p","r","o","c","e","s","s"," ","n","a","m","e"," ",
    "s","e","t"," ","o","n"," ","l","o","g","g","e","r">>

\* this.logger[level](msg, meta): the backend merges defaultMeta, then meta,
\* then level and message into the record it writes
\* (Object.assign({}, this.defaultMeta, meta, {level, message})) and hands
\* the record to every transport of the logger.  `fallback` is history: the
\* record comes from the catch block of doLog.
LoggerWrite(level, msg, meta) ==
  [level       |-> level,
   message     |-> msg,
   service     |-> IF meta.service # Undefined THEN meta.service
                   ELSE logger.defaultMeta.service,
   environment |-> IF meta.environment # Undefined THEN meta.environment
                   ELSE logger.defaultMeta.environment,
   logId       |-> meta.logId,
   trace_id    |-> meta.trace_id,
   userId      |-> meta.userId,
   processName |-> meta.processName,
   metadata    |-> meta.metadata,
   splat       |-> meta.splat,
   sinks       |-> Sinks(logger),
   fallback    |-> FALSE]

\* this.logger[level](x) with one argument: the message (or the Error's
\* message) and defaultMeta
LoggerWriteOne(level, msg) ==
  [level       |-> level,
   message     |-> msg,
   service     |-> logger.defaultMeta.service,
   environment |-> logger.defaultMeta.environment,
   logId       |-> Undefined,
   trace_id    |-> Undefined,
   userId      |-> Undefined,
   processName |-> UndefinedText,
   metadata    |-> NoObject,
   splat       |-> NoObject,
   sinks       |-> Sinks(logger),
   fallback    |-> TRUE]

\* x || null
OrNull(x) == IF Falsy(x) THEN Undefined ELSE x

\* A doLog without its try/catch: the missing process name reaches the caller.
doLogV1NoCatch(level, message, opts) ==
  IF FalsyText(processName)
  THEN [records |-> <<>>, threw |-> TRUE]
  ELSE [records |-> <<LoggerWrite(level,
             <<"[">> \o processName \o <<"]",":"," ">> \o MessageText(message),
             [service |-> Undefined, environment |-> Undefined,
              metadata |-> parseMetadata(opts, level),
              splat |-> NoObject,
              logId |-> OrNull(getLogId(ns)), trace_id |-> Undefined,
              userId |-> OrNull(getUserId(ns)),
              processName |-> processName])>>,
        threw |-> FALSE]

\* A log call's outcome: the records handed to this.logger, and whether the
\* call threw to its caller.
doLogV1(level, message, opts) ==
  LET logId == OrNull(getLogId(ns))
      userId == OrNull(getUserId(ns))
  IN IF FalsyText(processName)
     THEN [records |-> <<LoggerWriteOne(level, NoProcessNameMessage)>>,
           threw |-> FALSE]
     ELSE [records |-> <<LoggerWrite(level,
                <<"[">> \o processName \o <<"]",":"," ">> \o MessageText(message),
                [service |-> Undefined, environment |-> Undefined,
                 metadata |-> parseMetadata(opts, level),
                 splat |-> NoObject,
                 logId |-> logId, trace_id |-> Undefined, userId |-> userId,
                 processName |-> processName])>>,
           threw |-> FALSE]

doLogV2(level, message, opts) ==
  LET logId == OrNull(getLogId(ns))
      userId == OrNull(getUserId(ns))
      _opts == ObjectAssign(opts)
  IN [records |-> <<LoggerWrite(level, MessageText(message),
                [service |-> _opts.service, environment |-> _opts.environment,
                 metadata |-> NoObject,
                 splat |-> _opts,
                 logId |-> logId, trace_id |-> logId, userId |-> userId,
                 processName |-> UndefinedText])>>,
      threw |-> FALSE]

doLogV3(level, message, opts) ==
  LET logId == OrNull(getLogId(ns))
      userId == OrNull(getUserId(ns))
      _opts == ObjectAssign(opts)
  IN IF FalsyText(processName)
     THEN [records |-> <<LoggerWriteOne(level, NoProcessNameMessage)>>,
           threw |-> FALSE]
     ELSE [records |-> <<LoggerWrite(level,
                <<"[">> \o processName \o <<"]",":"," ">> \o MessageText(message),
                [service |-> _opts.service, environment |-> _opts.environment,
                 metadata |-> NoObject,
                 splat |-> _opts,
                 logId |-> logId, trace_id |-> logId, userId |-> userId,
                 processName |-> processName])>>,
           threw |-> FALSE]

doLog(level, message, opts) ==
  CASE variant = 1 -> doLogV1(level, message, opts)
    [] variant = 2 -> doLogV2(level, message, opts)
    [] variant = 3 -> doLogV3(level, message, opts)

(***************************************************************************)
(* Inputs                                                                  *)
(***************************************************************************)
Levels == {"info", "warn", "error", "debug"}

Services == {Undefined, "svc"}
Environments == {Undefined, "dev", "test", "prod", "DEV"}
AllMetadata == [service : Services, environment : Environments]
AllOptions == [filename : {Undefined, "./mylog.log"},
               datadog_api_key : {Undefined, "key"},
               level : {Undefined, "debug"}]
AllCustomTransports == {<<>>, <<"custom">>}

GoodMetadata == [service : {"svc"}, environment : Environments \ {Undefined}]
NoOptions == NoConfig.options

Hello == [kind |-> "string", text |-> <<"h","i">>]
Failure == [kind |-> "Error", text |-> <<"b","a","d">>]
Messages == {Hello, Failure}
Extras == {EmptyExtra, ClashExtra, BoomError}

LabelA == <<"A">>
LabelB == <<"B">>
Labels == {LabelA, LabelB}
Filenames == {<<"/","x","/","c",".","j","s">>}
MethodNames == {<<"r","u","n">>, <<"g","o">>}

Flows == {"A", "B"}
LogIdOf(f) == IF f = "A" THEN "a1" ELSE "b1"
UserIdOf(f) == IF f = "A" THEN "ua" ELSE "ub"

\* lastCall: the arguments of a log call and, as the call was made, the
\* process name, the calling flow and what that flow had done before
NoCall == [level |-> Undefined, message |-> [kind |-> "string", text |-> <<>>],
           opts |-> NoObject, processName |-> UndefinedText, flow |-> "none",
           setLog |-> FALSE, setUser |-> FALSE, afterDone |-> FALSE]

(***************************************************************************)
(* Actions: the facade                                                     *)
(***************************************************************************)
Construct(metadata, options, customTransports) ==
  /\ constructor(metadata, options, customTransports)
  /\ UNCHANGED <<procVars, ns, callVars, flowVars>>

SetProcess(name) ==
  /\ constructed = "yes"
  /\ setProcess(name)
  /\ lastLabel' = name
  /\ lastMethod' = UndefinedText
  /\ UNCHANGED <<loggerVars, ns, callVars, flowVars>>

SetFilename(filename) ==
  /\ constructed = "yes"
  /\ setFilename(filename)
  /\ lastLabel' = basename(filename)
  /\ lastMethod' = UndefinedText
  /\ UNCHANGED <<loggerVars, ns, callVars, flowVars>>

SetMethodProcess(methodName) ==
  /\ constructed = "yes"
  /\ setMethodProcess(methodName)
  /\ lastMethod' = methodName
  /\ UNCHANGED <<lastLabel, loggerVars, ns, callVars, flowVars>>

\* setLogId / setUserId called by code that runs outside any flow
SetLogId(logId) ==
  /\ constructed = "yes"
  /\ running = "none"
  /\ ns' = setLogId(ns, logId)
  /\ UNCHANGED <<loggerVars, procVars, callVars, flowVars>>

SetUserId(userId) ==
  /\ constructed = "yes"
  /\ running = "none"
  /\ ns' = setUserId(ns, userId)
  /\ UNCHANGED <<loggerVars, procVars, callVars, flowVars>>

\* info / warn / error / debug and their aliases, all of which call doLog
Log(level, message, opts) ==
  /\ constructed = "yes"
  /\ LET r == doLog(level, message, opts)
     IN /\ out' = r.records
        /\ threw' = r.threw
  /\ lastCall' = [level |-> level, message |-> message, opts |-> opts,
                  processName |-> processName, flow |-> running,
                  setLog |-> running # "none" /\ didSetLog[running],
                  setUser |-> running # "none" /\ didSetUser[running],
                  afterDone |-> running # "none" /\ afterDone[running]]
  /\ UNCHANGED <<loggerVars, procVars, ns, flowVars>>

(***************************************************************************)
(* Actions: logical flows on the one thread                                *)
(*                                                                         *)
(* A flow is a chain of callbacks.  Its first callback runs from a         *)
(* resource that holds no context; under the middleware it runs inside     *)
(* ns.run.  A callback that suspends leaves an async resource behind,      *)
(* which the init hook ties to the context active at that moment; the      *)
(* before hook enters that context when the flow resumes and the after     *)
(* hook exits it.                                                          *)
(***************************************************************************)
FlowStart(f, m) ==
  /\ running = "none"
  /\ pc[f] \in {"new", "done"}
  /\ started < MaxStarts
  /\ started' = started + 1
  /\ everLazy' = (everLazy \/ m = "lazy")
  /\ running' = f
  /\ pc' = [pc EXCEPT ![f] = "run"]
  /\ mode' = [mode EXCEPT ![f] = m]
  /\ afterDone' = [afterDone EXCEPT ![f] = \E g \in Flows : pc[g] = "done"]
  /\ didSetLog' = [didSetLog EXCEPT ![f] = FALSE]
  /\ didSetUser' = [didSetUser EXCEPT ![f] = FALSE]
  /\ resCtx' = [resCtx EXCEPT ![f] = 0]
  /\ IF m = "middleware"
     THEN /\ ns' = nsEnter(nsCreateContext(ns), NewContext(ns))
          /\ entered' = [entered EXCEPT ![f] = NewContext(ns)]
     ELSE /\ ns' = ns
          /\ entered' = [entered EXCEPT ![f] = 0]
  /\ UNCHANGED <<loggerVars, procVars, callVars>>

FlowSetLogId(f) ==
  /\ running = f
  /\ ns' = setLogId(ns, LogIdOf(f))
  /\ didSetLog' = [didSetLog EXCEPT ![f] = TRUE]
  /\ UNCHANGED <<loggerVars, procVars, callVars, running, pc, mode, resCtx,
                 entered, didSetUser, afterDone, everLazy, started>>

FlowSetUserId(f) ==
  /\ running = f
  /\ ns' = setUserId(ns, UserIdOf(f))
  /\ didSetUser' = [didSetUser EXCEPT ![f] = TRUE]
  /\ UNCHANGED <<loggerVars, procVars, callVars, running, pc, mode, resCtx,
                 entered, didSetLog, afterDone, everLazy, started>>

FlowLog(f) ==
  /\ running = f
  /\ Log("info", Hello, EmptyExtra)

\* the callback of f returns, leaving a pending async resource behind
FlowYield(f) ==
  /\ running = f
  /\ resCtx' = [resCtx EXCEPT ![f] = ns.active]
  /\ ns' = IF entered[f] # 0 THEN nsExit(ns, entered[f]) ELSE ns
  /\ entered' = [entered EXCEPT ![f] = 0]
  /\ pc' = [pc EXCEPT ![f] = "wait"]
  /\ running' = "none"
  /\ UNCHANGED <<loggerVars, procVars, callVars, mode, didSetLog, didSetUser,
                 afterDone, everLazy, started>>

\* the pending resource of f fires: the next callback of f runs
FlowResume(f) ==
  /\ running = "none"
  /\ pc[f] = "wait"
  /\ ns' = IF resCtx[f] # 0 THEN nsEnter(ns, resCtx[f]) ELSE ns
  /\ entered' = [entered EXCEPT ![f] = resCtx[f]]
  /\ pc' = [pc EXCEPT ![f] = "run"]
  /\ running' = f
  /\ UNCHANGED <<loggerVars, procVars, callVars, mode, resCtx, didSetLog,
                 didSetUser, afterDone, everLazy, started>>

\* the last callback of f returns: the flow is complete
FlowFinish(f) ==
  /\ running = f
  /\ ns' = IF entered[f] # 0 THEN nsExit(ns, entered[f]) ELSE ns
  /\ entered' = [entered EXCEPT ![f] = 0]
  /\ resCtx' = [resCtx EXCEPT ![f] = 0]
  /\ pc' = [pc EXCEPT ![f] = "done"]
  /\ running' = "none"
  /\ UNCHANGED <<loggerVars, procVars, callVars, mode, didSetLog, didSetUser,
                 afterDone, everLazy, started>>

(***************************************************************************)
(* Specifications                                                          *)
(***************************************************************************)
NoFlows ==
  /\ running = "none"
  /\ pc = [f \in Flows |-> "new"]
  /\ mode = [f \in Flows |-> "lazy"]
  /\ resCtx = [f \in Flows |-> 0]
  /\ entered = [f \in Flows |-> 0]
  /\ didSetLog = [f \in Flows |-> FALSE]
  /\ didSetUser = [f \in Flows |-> FALSE]
  /\ afterDone = [f \in Flows |-> FALSE]
  /\ everLazy = FALSE
  /\ started = 0

Init ==
  /\ variant \in Variants
  /\ constructed = "no"
  /\ config = NoConfig
  /\ logger = NoLogger
  /\ created = <<>>
  /\ processName = UndefinedText
  /\ classProcessName = UndefinedText
  /\ lastLabel = UndefinedText
  /\ lastMethod = UndefinedText
  /\ ns = NoNamespace
  /\ out = <<>>
  /\ lastCall = NoCall
  /\ threw = FALSE
  /\ NoFlows

\* The facade: one logger, its process name, its log calls.
Next ==
  \/ \E m \in GoodMetadata : Construct(m, NoOptions, <<>>)
  \/ SetProcess(LabelA)
  \/ SetMethodProcess(<<"r","u","n">>)
  \/ SetLogId("a1")
  \/ SetUserId("ua")
  \/ \E l \in Levels, m \in Messages, o \in Extras : Log(l, m, o)

Spec == Init /\ [][Next]_vars

\* Construction alone, over every combination of arguments.
NextConfig ==
  \E m \in AllMetadata, o \in AllOptions, c \in AllCustomTransports :
    Construct(m, o, c)

SpecConfig == Init /\ [][NextConfig]_vars

\* The process name alone.
NextProc ==
  \/ \E m \in GoodMetadata : Construct(m, NoOptions, <<>>)
  \/ \E n \in Labels : SetProcess(n)
  \/ \E fn \in Filenames : SetFilename(fn)
  \/ \E mn \in MethodNames : SetMethodProcess(mn)

SpecProc == Init /\ [][NextProc]_vars

\* Flows interleaving on a constructed logger.
InitFlow ==
  /\ variant \in Variants
  /\ constructed = "yes"
  /\ config = [NoConfig EXCEPT !.metadata = [service |-> "svc",
                                             environment |-> "prod"]]
  /\ logger = initializeLogger(variant, config.options,
                 buildMetadataConfig(variant, config.metadata), <<>>)
  /\ created = logger.transports
  /\ processName = LabelA
  /\ classProcessName = UndefinedText
  /\ lastLabel = LabelA
  /\ lastMethod = UndefinedText
  /\ ns = NoNamespace
  /\ out = <<>>
  /\ lastCall = NoCall
  /\ threw = FALSE
  /\ NoFlows

NextFlow ==
  \/ \E f \in Flows, m \in {"middleware", "lazy"} : FlowStart(f, m)
  \/ \E f \in Flows : FlowSetLogId(f)
  \/ \E f \in Flows : FlowSetUserId(f)
  \/ \E f \in Flows : FlowLog(f)
  \/ \E f \in Flows : FlowYield(f)
  \/ \E f \in Flows : FlowResume(f)
  \/ \E f \in Flows : FlowFinish(f)

SpecFlow == InitFlow /\ [][NextFlow]_vars

(***************************************************************************)
(* Properties                                                              *)
(***************************************************************************)
Records == {out[i] : i \in 1..Len(out)}

\* C1: a running flow that has set its logId (userId) reads back its own
\* value and never the other flow's, and every record it logs after setting
\* them carries its own logId and userId, in every interleaving and for
\* flows under the middleware as for flows whose context setLogId/setUserId
\* created.
C1_FlowsIsolated ==
  /\ \A f \in Flows : running = f =>
       /\ didSetLog[f] => getLogId(ns) = LogIdOf(f)
       /\ didSetUser[f] => getUserId(ns) = UserIdOf(f)
       /\ \A g \in Flows \ {f} : /\ getLogId(ns) # LogIdOf(g)
                                 /\ getUserId(ns) # UserIdOf(g)
  /\ \A r \in Records :
       /\ lastCall.setLog => r.logId = LogIdOf(lastCall.flow)
       /\ lastCall.setUser => r.userId = UserIdOf(lastCall.flow)

\* Flows that all run under the middleware are isolated (the part of C1 the
\* code keeps).
MiddlewareFlowsIsolated == ~everLazy => C1_FlowsIsolated

\* C2: a flow that started after an earlier flow completed and has not set
\* logId (userId) itself reads the absent value, and the records it logs
\* carry no logId (userId).
C2_ContextEndsWithFlow ==
  /\ \A f \in Flows : (running = f /\ afterDone[f]) =>
       /\ ~didSetLog[f] => getLogId(ns) = Undefined
       /\ ~didSetUser[f] => getUserId(ns) = Undefined
  /\ \A r \in Records : (lastCall.flow # "none" /\ lastCall.afterDone) =>
       /\ ~lastCall.setLog => r.logId = Undefined
       /\ ~lastCall.setUser => r.userId = Undefined

\* C3: a log call at any level made while the process name is unset does not
\* throw: it hands exactly one record to the logger, at the level of the
\* call, for the logger's transports, whose message is the raw message or
\* the message of the caught error.
C3_UnsetProcessNameNeverThrows ==
  (lastCall.level # Undefined /\ FalsyText(lastCall.processName)) =>
    /\ ~threw
    /\ Len(out) = 1
    /\ out[1].level = lastCall.level
    /\ out[1].sinks = Sinks(logger)
    /\ out[1].message \in {MessageText(lastCall.message), NoProcessNameMessage}

C3_Witness ==
  /\ lastCall.level = "debug"
  /\ FalsyText(lastCall.processName)
  /\ variant = 1
  /\ Len(out) = 1
  /\ out[1].fallback
  /\ out[1].message = NoProcessNameMessage

\* C4: constructing a Logger whose metadata lacks service or environment
\* throws, with no transport built and no backend logger created.
C4_MissingMetadataThrowsBeforeSinks ==
  (/\ constructed # "no"
   /\ \/ config.metadata.service \in {Undefined, ""}
      \/ config.metadata.environment \in {Undefined, ""}) =>
    /\ constructed = "threw"
    /\ created = <<>>
    /\ ~logger.exists
    /\ logger.transports = <<>>

C4_Witness ==
  /\ constructed = "threw"
  /\ config.metadata.service = "svc"
  /\ config.metadata.environment = Undefined
  /\ config.options.filename # Undefined

\* C5: every record carries service and environment exactly as they were
\* given at construction, whatever the level and the per-call extra object.
C5_BaseKeysNeverOverridden ==
  \A r \in Records :
    /\ r.service = config.metadata.service
    /\ r.environment = config.metadata.environment

\* C6: the file sink is active iff a filename is configured; with
\* environment "dev", a filename and no API key the sinks are exactly
\* console and file.
C6_FileSinkIffFilename ==
  constructed = "yes" =>
    /\ ("file" \in Sinks(logger)) <=> (config.options.filename # Undefined)
    /\ (/\ config.metadata.environment = "dev"
        /\ config.options.filename # Undefined
        /\ config.options.datadog_api_key = Undefined
        /\ config.customTransports = <<>>)
         => Sinks(logger) = {"console", "file"}

\* C7: with environment "test" the sinks exclude console and include the
\* null sink, for every combination of options and custom sinks; with any
\* other environment console is included and the null sink is not.
C7_TestEnvironmentSinks ==
  constructed = "yes" =>
    IF config.metadata.environment = "test"
    THEN "console" \notin Sinks(logger) /\ "null" \in Sinks(logger)
    ELSE "console" \in Sinks(logger) /\ "null" \notin Sinks(logger)

\* C8: the remote sink is active iff an API key is configured and the
\* environment is not "test".
C8_RemoteSinkIffKeyAndNotTest ==
  constructed = "yes" =>
    (("remote" \in Sinks(logger)) <=>
       (/\ config.options.datadog_api_key # Undefined
        /\ config.metadata.environment # "test"))

\* the per-call payload as a record shows it: under the key metadata, or as
\* the keys merged into the record
Payload(r) == IF r.metadata.kind # "none" THEN r.metadata ELSE r.splat

\* C9: the record of an error-level call with an Error payload holds, when
\* the environment is not the local-dev marker, a plain structure with the
\* error's message, its name and a non-empty stack, and when it is, the
\* Error object itself.  (The marker is LOCAL_DEV_ENVIRONMENT, which the
\* constructor accepts as an environment like any other non-empty string.)
C9_ErrorPayloadNormalized ==
  \A r \in Records :
    (/\ lastCall.level = "error"
     /\ lastCall.opts.kind = "Error"
     /\ ~FalsyText(lastCall.processName)) =>
      IF config.metadata.environment = LOCAL_DEV_ENVIRONMENT
      THEN Payload(r).id = lastCall.opts.id
      ELSE /\ Payload(r).kind = "plain"
           /\ Payload(r).id # lastCall.opts.id
           /\ Payload(r).message = lastCall.opts.message
           /\ Payload(r).name = lastCall.opts.name
           /\ Payload(r).stack \notin {Undefined, ""}

\* C9 for the first variant alone and without its last sentence: the part
\* parseMetadata keeps.
C9_FirstVariantNormalizes ==
  \A r \in Records :
    (/\ variant = 1
     /\ lastCall.level = "error"
     /\ lastCall.opts.kind = "Error"
     /\ ~FalsyText(lastCall.processName)) =>
      IF config.metadata.environment = LOCAL_DEV_ENVIRONMENT
      THEN Payload(r).id = lastCall.opts.id
      ELSE /\ Payload(r).kind = "plain"
           /\ Payload(r).id # lastCall.opts.id
           /\ Payload(r).message = lastCall.opts.message
           /\ Payload(r).name = lastCall.opts.name
           /\ Payload(r).stack \notin {Undefined, ""}

\* The environment the first variant formats for local development ("dev",
\* the dev printer) is the one whose errors pass through unserialized.
\* It is not: the marker is "DEV".
DevFormatPassesErrorsThrough ==
  \A r \in Records :
    (/\ logger.format = "dev"
     /\ lastCall.level = "error"
     /\ lastCall.opts.kind = "Error"
     /\ ~FalsyText(lastCall.processName)) =>
      Payload(r).id = lastCall.opts.id

\* C10: after setMethodProcess(m) the process name is the label last given
\* by setProcess or setFilename, the separator, and m with its first letter
\* in upper case.
C10_MethodAppendedToCurrentLabel ==
  (lastMethod # UndefinedText /\ lastLabel # UndefinedText) =>
    processName = lastLabel \o MethodSeparator(variant)
                    \o methodNameCapitalized(lastMethod)

====
